---- MODULE Spec2Model ----
(***************************************************************************)
(* VPN-reseller billing dashboard: the Excel import page, the invoice      *)
(* generator page, the invoice centre, the accounting dashboard and the    *)
(* server tables behind them.                                              *)
(*                                                                         *)
(* Numbers.  JavaScript numbers are modelled as exact decimals:            *)
(*   - a usage quantity is an integer count of thousandths of a GB;        *)
(*   - a raw spreadsheet number is a count of thousandths too, split as    *)
(*     k * 2^20 + m so that byte counts fit the checker's integers;        *)
(*   - a client-side money amount is [m, s]: m thousandths of a toman plus *)
(*     s hundred-thousandths;                                              *)
(*   - a stored amount (decimal(12,2) column) is an integer count of       *)
(*     hundredths of a toman.                                              *)
(* IEEE rounding error of the double arithmetic is not modelled.           *)
(***************************************************************************)
EXTENDS Integers, Sequences, FiniteSets, TLC

VARIABLES
    representatives,   \* server table representatives (sequence of rows)
    invoices,          \* server table invoices
    payments,          \* server table payments
    billingData,       \* server table billing_data
    now,               \* wall clock, milliseconds
    file,              \* ExcelImport: rows of the selected sheet, or NoFile
    importMonth,       \* ExcelImport: selectedMonth of the month input
    processedData,     \* ExcelImport: processedData, or NoData
    selectedMonth,     \* InvoiceGenerator: selectedMonth
    invoiceData,       \* InvoiceGenerator: invoiceData (the drafts)
    generateAll,       \* InvoiceGenerator: generateAll
    selectedReps,      \* InvoiceGenerator: selectedReps
    toast,             \* the last notification shown to the operator
    request,           \* body of the last POST /api/invoices/generate-batch
    searchTerm,        \* TelegramManager: searchTerm
    statusFilter,      \* TelegramManager: statusFilter
    selectedContacts,  \* TelegramManager: selectedContacts
    openedLinks,       \* TelegramManager: links opened by the last send
    accountingStatusFilter  \* AccountingDashboard: statusFilter

vars == <<representatives, invoices, payments, billingData, now, file,
          importMonth, processedData, selectedMonth, invoiceData,
          generateAll, selectedReps, toast, request, searchTerm, statusFilter,
          selectedContacts, openedLinks, accountingStatusFilter>>

serverVars == <<representatives, invoices, payments, billingData>>
importVars == <<file, importMonth, processedData>>
generatorVars == <<selectedMonth, invoiceData, generateAll, selectedReps>>
telegramVars == <<searchTerm, statusFilter, selectedContacts, openedLinks>>
viewVars == <<telegramVars, accountingStatusFilter>>

----------------------------------------------------------------------------
(* Bounds                                                                  *)

MaxRows == 2        \* rows of an imported sheet
MaxBilling == 1     \* rows of billing_data
MaxInvoices == 2    \* rows of invoices
MaxPayments == 1    \* rows of payments
MaxClock == 1000000 \* latest reading of the wall clock, milliseconds
MaxStored == 4      \* rows of billing_data over several imports

----------------------------------------------------------------------------
(* Raw spreadsheet numbers                                                 *)

Mi == 1024 * 1024

\* The number whose value is (k * 2^20 + m) / 1000; NaN is nan = TRUE.
Num(k, m) == [nan |-> FALSE, k |-> k, m |-> m]
NaN == [nan |-> TRUE, k |-> 0, m |-> 0]
\* n thousandths, 0 <= n < 2^31, and a whole number
FromMilli(n) == IF n < 0 THEN Num(0, n) ELSE Num(n \div Mi, n % Mi)
Whole(n) == FromMilli(n * 1000)

\* x > c for a whole number c <= 1,000,000
NumGt(x, c) == IF x.k >= 1024 THEN TRUE ELSE x.k * Mi + x.m > c * 1000
\* x < 0
NumNeg(x) == x.k = 0 /\ x.m < 0
\* x === 0
NumZero(x) == x.k = 0 /\ x.m = 0

\* Math.round(y) for y = n / d, n >= 0: the nearest integer, halves up.
RoundDiv(n, d) == (2 * n + d) \div (2 * d)

----------------------------------------------------------------------------
(* Spreadsheet cells and rows                                              *)

\* A cell is a number or a string; a row is a sequence of <<key, cell>>
\* in the sheet's column order (Object.keys order).
NumCell(x) == [t |-> "num", v |-> x, s |-> ""]
StrCell(str) == [t |-> "str", v |-> NaN, s |-> str]
Null == [t |-> "null", v |-> NaN, s |-> ""]

\* String.prototype.toLowerCase on the column names that occur.
ToLowerCase(key) ==
    CASE key = "Username" -> "username"
      [] key = "USAGE" -> "usage"
      [] key = "Admin_Username" -> "admin_username"
      [] OTHER -> key

\* String.prototype.trim on the identities that occur.
Trim(str) ==
    CASE str = " u1 " -> "u1"
      [] OTHER -> str

\* parseFloat on the strings that occur.
ParseFloatStr(str) ==
    CASE str = "0" -> Whole(0)
      [] str = "5" -> Whole(5)
      [] str = "-3" -> Num(0, -3000)
      [] OTHER -> NaN

\* parseFloat(cell)
ParseFloat(cell) == IF cell.t = "num" THEN cell.v ELSE ParseFloatStr(cell.s)

\* !cell : null, 0, NaN and "" are falsy
Falsy(cell) ==
    \/ cell.t = "null"
    \/ cell.t = "num" /\ (cell.v.nan \/ NumZero(cell.v))
    \/ cell.t = "str" /\ cell.s = ""

\* cell.toString().trim() of an identity cell
CellToString(cell) ==
    IF cell.t = "str" THEN Trim(cell.s)
    ELSE IF cell.v.k = 0 /\ cell.v.m = 5000 THEN "5" ELSE "number"

----------------------------------------------------------------------------
(* ExcelImport: findFieldValue, processRawData                             *)

NoFile == <<"no file">>
NoData == [none |-> TRUE]
CurrentCalendarMonth == "2025-04"   \* new Date().toISOString().slice(0, 7)

RowHas(row, key) == \E i \in 1..Len(row) : row[i][1] = key
RowGet(row, key) == row[CHOOSE i \in 1..Len(row) : row[i][1] = key][2]

\* keys.find(key => key.toLowerCase() === field.toLowerCase())
MatchedKey(row, field) ==
    LET hits == {i \in 1..Len(row) : ToLowerCase(row[i][1]) = ToLowerCase(field)}
    IN IF hits = {} THEN 0 ELSE CHOOSE i \in hits : \A j \in hits : i <= j

RECURSIVE FindFrom(_, _, _)
FindFrom(row, possibleFields, f) ==
    IF f > Len(possibleFields) THEN Null
    ELSE IF RowHas(row, possibleFields[f]) THEN RowGet(row, possibleFields[f])
    ELSE IF MatchedKey(row, possibleFields[f]) # 0
         THEN row[MatchedKey(row, possibleFields[f])][2]
    ELSE FindFrom(row, possibleFields, f + 1)

findFieldValue(row, possibleFields) == FindFrom(row, possibleFields, 1)

IdentityFields == <<"admin_username", "username", "admin", "user">>
UsageFields == <<"data_usage", "usage", "data", "gb", "traffic">>

BytesThreshold == 1000000
MbThreshold == 1000

\* Math.round(finalDataUsage * 1000) of the three-branch unit heuristic,
\* for a parsed value x >= 0: thousandths of a GB.
\*   x > 1000000 : x / 2^30.  (k 2^20 + m) / 2^30 rounds to (k + 512) div 1024
\*                 because 0 <= m < 2^20.
\*   x > 1000    : x / 1024
\*   otherwise   : x
\* x >= c for a whole number c <= 1,000,000
NumGe(x, c) == IF x.k >= 1024 THEN TRUE ELSE x.k * Mi + x.m >= c * 1000

\* The heuristic with inclusive thresholds.
NormaliseUsageGe(x) ==
    IF NumGe(x, BytesThreshold) THEN (x.k + 512) \div 1024
    ELSE IF NumGe(x, MbThreshold) THEN RoundDiv(x.k * Mi + x.m, 1024)
    ELSE x.k * Mi + x.m

NormaliseUsage(x) ==
    IF NumGt(x, BytesThreshold) THEN (x.k + 512) \div 1024
    ELSE IF NumGt(x, MbThreshold) THEN RoundDiv(x.k * Mi + x.m, 1024)
    ELSE x.k * Mi + x.m

\* An iteration that does not look at the identity before accepting the row.
ProcessRowAnyIdentity(row, index, currentMonth) ==
    LET adminUsername == findFieldValue(row, IdentityFields)
        dataUsage == findFieldValue(row, UsageFields)
        dataUsageGb == ParseFloat(dataUsage)
    IN IF Falsy(dataUsage)
       THEN [ok |-> FALSE, error |-> [row |-> index, reason |-> "usage not found"]]
       ELSE IF dataUsageGb.nan \/ NumNeg(dataUsageGb)
       THEN [ok |-> FALSE, error |-> [row |-> index, reason |-> "usage invalid"]]
       ELSE [ok |-> TRUE,
             record |-> [adminUsername |-> IF adminUsername.t = "null" THEN ""
                                           ELSE CellToString(adminUsername),
                         dataUsageGb |-> NormaliseUsage(dataUsageGb),
                         month |-> currentMonth,
                         rawData |-> row]]

\* One iteration of rawData.forEach: the error pushed, or the record pushed.
ProcessRow(row, index, currentMonth) ==
    LET adminUsername == findFieldValue(row, IdentityFields)
        dataUsage == findFieldValue(row, UsageFields)
        dataUsageGb == ParseFloat(dataUsage)
    IN IF Falsy(adminUsername)
       THEN [ok |-> FALSE, error |-> [row |-> index, reason |-> "username not found"]]
       ELSE IF Falsy(dataUsage)
       THEN [ok |-> FALSE, error |-> [row |-> index, reason |-> "usage not found"]]
       ELSE IF dataUsageGb.nan \/ NumNeg(dataUsageGb)
       THEN [ok |-> FALSE, error |-> [row |-> index, reason |-> "usage invalid"]]
       ELSE [ok |-> TRUE,
             record |-> [adminUsername |-> CellToString(adminUsername),
                         dataUsageGb |-> NormaliseUsage(dataUsageGb),
                         month |-> currentMonth,
                         rawData |-> row]]

\* an error list that leaves out the rows rejected for an invalid usage
RECURSIVE ErrorsFromDroppingInvalid(_, _, _)
ErrorsFromDroppingInvalid(rawData, i, currentMonth) ==
    IF i > Len(rawData) THEN <<>>
    ELSE LET r == ProcessRow(rawData[i], i, currentMonth)
         IN (IF r.ok \/ r.error.reason = "usage invalid" THEN <<>> ELSE <<r.error>>)
            \o ErrorsFromDroppingInvalid(rawData, i + 1, currentMonth)

RECURSIVE ErrorsFrom(_, _, _)
ErrorsFrom(rawData, i, currentMonth) ==
    IF i > Len(rawData) THEN <<>>
    ELSE LET r == ProcessRow(rawData[i], i, currentMonth)
         IN (IF r.ok THEN <<>> ELSE <<r.error>>) \o ErrorsFrom(rawData, i + 1, currentMonth)

RECURSIVE RecordsFrom(_, _, _)
RecordsFrom(rawData, i, currentMonth) ==
    IF i > Len(rawData) THEN <<>>
    ELSE LET r == ProcessRow(rawData[i], i, currentMonth)
         IN (IF r.ok THEN <<r.record>> ELSE <<>>) \o RecordsFrom(rawData, i + 1, currentMonth)

\* finalDataUsage before rounding, exactly: w thousandths of a GB plus f
\* 2^30-ths of a thousandth
Gi == 1024 * Mi

FinalDataUsage(x) ==
    IF NumGt(x, BytesThreshold)
    THEN [w |-> x.k \div 1024, f |-> (x.k % 1024) * Mi + x.m]
    ELSE IF NumGt(x, MbThreshold)
    THEN [w |-> (x.k * Mi + x.m) \div 1024, f |-> ((x.k * Mi + x.m) % 1024) * Mi]
    ELSE [w |-> x.k * Mi + x.m, f |-> 0]

\* totalDataUsage += finalDataUsage over the accepted rows
RECURSIVE TotalFrom(_, _, _)
TotalFrom(rawData, i, currentMonth) ==
    IF i > Len(rawData) THEN [w |-> 0, f |-> 0]
    ELSE LET r == ProcessRow(rawData[i], i, currentMonth)
             rest == TotalFrom(rawData, i + 1, currentMonth)
             t == FinalDataUsage(ParseFloat(findFieldValue(rawData[i], UsageFields)))
         IN IF r.ok
            THEN [w |-> t.w + rest.w + (t.f + rest.f) \div Gi, f |-> (t.f + rest.f) % Gi]
            ELSE rest

\* Math.round(totalDataUsage * 1000), thousandths of a GB
RoundTotal(t) == t.w + (IF 2 * t.f >= Gi THEN 1 ELSE 0)

processRawData(rawData, month) ==
    LET currentMonth == IF month = "" THEN CurrentCalendarMonth ELSE month
        validRecords == RecordsFrom(rawData, 1, currentMonth)
        errors == ErrorsFrom(rawData, 1, currentMonth)
    IN [none |-> FALSE,
        totalRecords |-> Len(rawData),
        validRecords |-> Len(validRecords),
        invalidRecords |-> Len(errors),
        uniqueUsers |-> Cardinality({validRecords[i].adminUsername : i \in 1..Len(validRecords)}),
        totalDataUsage |-> RoundTotal(TotalFrom(rawData, 1, currentMonth)),
        records |-> validRecords,
        errors |-> errors]

----------------------------------------------------------------------------
(* The sheets the operator can select                                      *)

Row(idKey, id, usageKey, usage) == <<<<idKey, id>>, <<usageKey, usage>>>>

Bytes5G == Num(5120000, 0)          \* 5368709120 = 5 * 2^30

SheetRows ==
    { Row("admin_username", StrCell("u1"), "data_usage", NumCell(Bytes5G)),
      Row("Username", StrCell("u2"), "USAGE", NumCell(Whole(5120))),
      Row("admin_username", StrCell(" u1 "), "data_usage", NumCell(Whole(5))),
      Row("admin_username", StrCell("u1"), "data_usage", NumCell(Whole(1000))),
      Row("admin_username", StrCell("u2"), "data_usage", NumCell(Whole(1000000))),
      Row("admin_username", StrCell("null"), "data_usage", NumCell(Whole(5))),
      Row("name", StrCell("u1"), "data_usage", NumCell(Whole(5))),
      Row("admin_username", StrCell("u1"), "data_usage", NumCell(Whole(0))),
      Row("admin_username", StrCell("u2"), "data_usage", StrCell("null")),
      <<<<"admin_username", StrCell("u1")>>>> }

RECURSIVE SeqsUpTo(_, _)
SeqsUpTo(S, n) ==
    IF n = 0 THEN {<<>>}
    ELSE LET shorter == SeqsUpTo(S, n - 1)
         IN shorter \cup {Append(q, x) : q \in {r \in shorter : Len(r) = n - 1}, x \in S}

Sheets == SeqsUpTo(SheetRows, MaxRows) \ {<<>>}
ImportMonths == {"", "2025-03"}

----------------------------------------------------------------------------
(* Server: storage.createBillingData behind POST /api/billing-data         *)

\* db.insert(billingData).values(data).returning(): an empty array is refused
createBillingData(data) == billingData \o data

----------------------------------------------------------------------------
(* ExcelImport page                                                        *)

\* Selecting a sheet while another is selected gives the state that clearFile
\* followed by the selection gives, so selections are enumerated from the
\* empty page only, and only while billing_data is below its bound.
handleFileSelect(rows) ==
    /\ file = NoFile
    /\ Len(billingData) < MaxBilling
    /\ file' = rows
    /\ processedData' = NoData
    /\ UNCHANGED <<viewVars, serverVars, now, importMonth, generatorVars, toast, request>>

setImportMonth(m) ==
    /\ importMonth' = m
    /\ UNCHANGED <<viewVars, serverVars, now, file, processedData, generatorVars, toast, request>>

\* shown when file && !processedData
processExcelFile ==
    /\ file # NoFile
    /\ processedData = NoData
    /\ processedData' = processRawData(file, importMonth)
    /\ toast' = IF Len(processedData'.errors) > 0 THEN "import: errors found" ELSE toast
    /\ UNCHANGED <<viewVars, serverVars, now, file, importMonth, generatorVars, request>>

\* shown when processedData.validRecords > 0; the mutation posts
\* processedData.records and on success clears the page
handleSaveBillingData ==
    /\ processedData # NoData
    /\ processedData.validRecords > 0
    /\ Len(billingData) + Len(processedData.records) <= MaxBilling
    /\ billingData' = createBillingData(processedData.records)
    /\ toast' = "import: saved"
    /\ processedData' = NoData
    /\ file' = NoFile
    /\ UNCHANGED <<viewVars, representatives, invoices, payments, now, importMonth, generatorVars, request>>

clearFile ==
    /\ file # NoFile
    /\ file' = NoFile
    /\ processedData' = NoData
    /\ UNCHANGED <<viewVars, serverVars, now, importMonth, generatorVars, toast, request>>

NoReps == <<>>

InitImport ==
    /\ representatives = NoReps
    /\ invoices = <<>>
    /\ payments = <<>>
    /\ billingData = <<>>
    /\ now = 0
    /\ file = NoFile
    /\ importMonth = ""
    /\ processedData = NoData
    /\ selectedMonth = ""
    /\ invoiceData = <<>>
    /\ generateAll = TRUE
    /\ selectedReps = {}
    /\ toast = ""
    /\ request = <<>>
    /\ searchTerm = ""
    /\ statusFilter = "all"
    /\ selectedContacts = {}
    /\ openedLinks = <<>>
    /\ accountingStatusFilter = "all"

NextImport ==
    \/ \E rows \in Sheets : handleFileSelect(rows)
    \/ \E m \in ImportMonths : setImportMonth(m)
    \/ processExcelFile
    \/ handleSaveBillingData
    \/ clearFile

SpecImport == InitImport /\ [][NextImport]_vars

----------------------------------------------------------------------------
(* Money                                                                   *)

\* A client-side amount: w whole tomans plus f hundred-thousandths (0..99999).
Money(w, f) == [w |-> w, f |-> f]

Zero == Money(0, 0)

\* totalUsage * pricePerGb, usage in thousandths of a GB, price in tomans
MoneyMul(usageMilli, price) ==
    LET frac == (usageMilli % 1000) * price
    IN Money((usageMilli \div 1000) * price + frac \div 1000, (frac % 1000) * 100)

\* (amount * percent) / 100, percent a whole number
MoneyPercent(a, percent) ==
    LET F == ((a.w * percent) % 100) * 1000 + (a.f * percent) \div 100
    IN Money((a.w * percent) \div 100 + F \div 100000, F % 100000)

\* a - b
MoneySub(a, b) ==
    IF a.f >= b.f THEN Money(a.w - b.w, a.f - b.f)
    ELSE Money(a.w - b.w - 1, a.f + 100000 - b.f)

\* value.toString() stored in a decimal(12,2) column: hundredths, halves up
ToDecimal2(a) == a.w * 100 + (a.f + 500) \div 1000

----------------------------------------------------------------------------
(* Server: tables and storage                                              *)

\* A nullable text column: null, or a string as its sequence of characters
NullText == [null |-> TRUE, s |-> <<>>]
Text(s) == [null |-> FALSE, s |-> s]

\* !!t : null and "" are falsy
Truthy(t) == ~t.null /\ Len(t.s) > 0

\* a || b
Or(a, b) == IF Truthy(a) THEN a ELSE b

\* a row of representatives; the legacy dialog sets pricePerGb and
\* discountPercent, the tiered dialog sets price1Month
Rep(id, username, price1Month, pricePerGb, discountPercent) ==
    [id |-> id, username |-> username, price1Month |-> price1Month,
     pricePerGb |-> pricePerGb, discountPercent |-> discountPercent,
     telegramId |-> NullText, telegramUsername |-> NullText]

DefaultPrice == 50000

\* storage.getBillingData(month)
RECURSIVE SelectSeq2(_, _)
SelectSeq2(q, m) ==
    IF q = <<>> THEN <<>>
    ELSE (IF Head(q).month = m THEN <<Head(q)>> ELSE <<>>) \o SelectSeq2(Tail(q), m)

getBillingData(month) == IF month = "" THEN billingData ELSE SelectSeq2(billingData, month)

\* A timestamp column: day d since an origin and ms milliseconds into the
\* day (Date.getTime() is d * 86400000 + ms); the wall clock now counts
\* the milliseconds of the day Today.
Today == 40
Timestamp(d, ms) == [d |-> d, ms |-> ms]

\* storage.createInvoice: invoice_number is unique, id is serial,
\* created_at defaults to now, amounts are decimal(12,2)
InvoiceNumberTaken(table, number) == \E i \in 1..Len(table) : table[i].invoiceNumber = number

createInvoiceNoUnique(table, inv, at) ==
    Append(table, [id |-> Len(table) + 1,
                   representativeId |-> inv.representativeId,
                   invoiceNumber |-> inv.invoiceNumber,
                   month |-> inv.month,
                   totalAmount |-> ToDecimal2(inv.totalAmount),
                   discountAmount |-> ToDecimal2(inv.discountAmount),
                   finalAmount |-> ToDecimal2(inv.finalAmount),
                   status |-> inv.status,
                   createdAt |-> Timestamp(Today, at)])

createInvoice(table, inv, at) ==
    IF InvoiceNumberTaken(table, inv.invoiceNumber) THEN table
    ELSE createInvoiceNoUnique(table, inv, at)

\* POST /api/invoices/generate-batch: one storage.createInvoice per element
RECURSIVE GenerateBatch(_, _, _)
GenerateBatch(table, batch, at) ==
    IF batch = <<>> THEN table
    ELSE GenerateBatch(createInvoice(table, Head(batch), at), Tail(batch), at)

\* storage.updateInvoice(id, {status})
updateInvoice(table, id, status) ==
    [i \in 1..Len(table) |->
        IF table[i].id = id THEN [table[i] EXCEPT !.status = status] ELSE table[i]]

\* storage.createPayment; paymentDate is the date of the form, left at
\* its default (today, midnight)
createPayment(table, representativeId, amount) ==
    Append(table, [representativeId |-> representativeId, amount |-> amount,
                   paymentDate |-> Timestamp(Today, 0)])

----------------------------------------------------------------------------
(* InvoiceGenerator page                                                   *)

SuffixMod == 1000000
StepMs == 200

\* generateInvoiceNumber: Date.now().toString().slice(-6) is now mod 10^6
generateInvoiceNumber(repId, month, at) ==
    [rep |-> repId, month |-> month, suffix |-> at % SuffixMod]

\* useQuery(["/api/billing-data", selectedMonth], enabled: !!selectedMonth)
GeneratorBillingData == IF selectedMonth = "" THEN <<>> ELSE getBillingData(selectedMonth)

\* getAvailableMonths
getAvailableMonths == {GeneratorBillingData[i].month : i \in 1..Len(GeneratorBillingData)}

\* isInvoiceGenerated
isInvoiceGenerated(repId, month) ==
    \E i \in 1..Len(invoices) :
        invoices[i].representativeId = repId /\ invoices[i].month = month

\* representativesMap.get(username): the last row of that username, or none
RepIndex(username) ==
    LET hits == {i \in 1..Len(representatives) : representatives[i].username = username}
    IN IF hits = {} THEN 0 ELSE CHOOSE i \in hits : \A j \in hits : j <= i

\* a grouping with one key per row
RECURSIVE GroupKeysEveryRow(_, _)
GroupKeysEveryRow(data, seen) ==
    IF data = <<>> THEN <<>>
    ELSE <<Head(data).adminUsername>> \o GroupKeysEveryRow(Tail(data), seen)

\* Object.entries(groupedBilling): usernames in order of first occurrence
RECURSIVE GroupKeys(_, _)
GroupKeys(data, seen) ==
    IF data = <<>> THEN <<>>
    ELSE IF Head(data).adminUsername \in seen THEN GroupKeys(Tail(data), seen)
    ELSE <<Head(data).adminUsername>>
         \o GroupKeys(Tail(data), seen \cup {Head(data).adminUsername})

\* a grouping that keeps only the user's first row
RECURSIVE GroupTotalFirstRow(_, _)
GroupTotalFirstRow(data, username) ==
    IF data = <<>> THEN 0
    ELSE IF Head(data).adminUsername = username THEN Head(data).dataUsageGb
    ELSE GroupTotalFirstRow(Tail(data), username)

\* groupedBilling[username]: the sum of dataUsageGb over the user's rows
RECURSIVE GroupTotal(_, _)
GroupTotal(data, username) ==
    IF data = <<>> THEN 0
    ELSE (IF Head(data).adminUsername = username THEN Head(data).dataUsageGb ELSE 0)
         + GroupTotal(Tail(data), username)

\* the unit price a draft is computed with
UnitPrice(representative) == representative.pricePerGb

\* the body of the forEach over the groups, for a matched representative
Draft(representative, totalUsage, month) ==
    LET pricePerGb == UnitPrice(representative)
        discountPercent == representative.discountPercent
        totalAmount == MoneyMul(totalUsage, pricePerGb)
        discountAmount == MoneyPercent(totalAmount, discountPercent)
        finalAmount == MoneySub(totalAmount, discountAmount)
    IN [representativeId |-> representative.id,
        username |-> representative.username,
        dataUsageGb |-> totalUsage,
        pricePerGb |-> pricePerGb,
        discountPercent |-> discountPercent,
        totalAmount |-> totalAmount,
        finalAmount |-> finalAmount,
        month |-> month]

\* a forEach that gives up at the first username without representative
RECURSIVE DraftsOfStoppingAtUnmatched(_, _, _)
DraftsOfStoppingAtUnmatched(keys, data, month) ==
    IF keys = <<>> THEN <<>>
    ELSE IF RepIndex(Head(keys)) = 0 THEN <<>>
    ELSE <<Draft(representatives[RepIndex(Head(keys))],
                 GroupTotal(data, Head(keys)), month)>>
         \o DraftsOfStoppingAtUnmatched(Tail(keys), data, month)

RECURSIVE DraftsOf(_, _, _)
DraftsOf(keys, data, month) ==
    IF keys = <<>> THEN <<>>
    ELSE (IF RepIndex(Head(keys)) = 0 THEN <<>>
          ELSE <<Draft(representatives[RepIndex(Head(keys))],
                       GroupTotal(data, Head(keys)), month)>>)
         \o DraftsOf(Tail(keys), data, month)

setSelectedMonth(m) ==
    /\ m \in getAvailableMonths
    /\ selectedMonth' = m
    /\ UNCHANGED <<viewVars, serverVars, now, importVars, invoiceData, generateAll, selectedReps, toast, request>>

\* the button is shown when a month is selected; the console.warn for a
\* username without representative goes to the browser console and leaves
\* the page as it is
processInvoiceData ==
    /\ selectedMonth # ""
    /\ IF Len(GeneratorBillingData) = 0
       THEN /\ toast' = "generator: select a month with billing data"
            /\ UNCHANGED invoiceData
       ELSE /\ invoiceData' = DraftsOf(GroupKeys(GeneratorBillingData, {}),
                                       GeneratorBillingData, selectedMonth)
            /\ toast' = IF Len(invoiceData') = 0 THEN "generator: nothing to invoice" ELSE toast
    /\ UNCHANGED <<viewVars, serverVars, now, importVars, selectedMonth, generateAll, selectedReps, request>>

\* the "select all" checkbox, shown with the draft list
setGenerateAll(checked) ==
    /\ Len(invoiceData) > 0
    /\ generateAll' = checked
    /\ UNCHANGED <<viewVars, serverVars, now, importVars, selectedMonth, invoiceData, selectedReps, toast, request>>

\* a draft's checkbox: shown when generateAll is off, disabled once generated
handleRepresentativeSelect(repId, checked) ==
    /\ ~generateAll
    /\ \E i \in 1..Len(invoiceData) :
          /\ invoiceData[i].representativeId = repId
          /\ ~isInvoiceGenerated(repId, invoiceData[i].month)
    /\ selectedReps' = IF checked THEN selectedReps \cup {repId} ELSE selectedReps \ {repId}
    /\ UNCHANGED <<viewVars, serverVars, now, importVars, selectedMonth, invoiceData, generateAll, toast, request>>

\* invoiceData.filter(inv => selectedReps.has(inv.representativeId))
RECURSIVE FilterSelected(_)
FilterSelected(drafts) ==
    IF drafts = <<>> THEN <<>>
    ELSE (IF Head(drafts).representativeId \in selectedReps THEN <<Head(drafts)>> ELSE <<>>)
         \o FilterSelected(Tail(drafts))

\* a payload whose discount is taken on the final amount
InvoicePayloadDiscountOnFinal(inv, at) ==
    [representativeId |-> inv.representativeId,
     invoiceNumber |-> [rep |-> inv.representativeId, month |-> inv.month,
                        suffix |-> at % SuffixMod],
     month |-> inv.month,
     totalAmount |-> inv.totalAmount,
     discountAmount |-> MoneyPercent(inv.finalAmount, inv.discountPercent),
     finalAmount |-> inv.finalAmount,
     status |-> "pending"]

\* invoicesToGenerate.map(...): what is handed to persistence
InvoicePayload(inv, at) ==
    [representativeId |-> inv.representativeId,
     invoiceNumber |-> generateInvoiceNumber(inv.representativeId, inv.month, at),
     month |-> inv.month,
     totalAmount |-> inv.totalAmount,
     discountAmount |-> MoneyPercent(inv.totalAmount, inv.discountPercent),
     finalAmount |-> inv.finalAmount,
     status |-> "pending"]

Payloads(drafts, at) == [i \in 1..Len(drafts) |-> InvoicePayload(drafts[i], at)]

invoicesToGenerate == IF generateAll THEN invoiceData ELSE FilterSelected(invoiceData)

\* The whole handler: the payload, the 200 ms progress steps, the mutation,
\* the server's inserts and onSuccess.
handleGenerateInvoices ==
    /\ Len(invoiceData) > 0
    /\ IF Len(invoicesToGenerate) = 0
       THEN /\ toast' = "generator: nothing selected"
            /\ UNCHANGED <<invoices, now, request>>
       ELSE /\ Len(invoices) + Len(invoicesToGenerate) <= MaxInvoices
            /\ now' = now + StepMs * Len(invoicesToGenerate)
            /\ request' = Payloads(invoicesToGenerate, now)
            /\ invoices' = GenerateBatch(invoices, request', now')
            /\ toast' = "generator: invoices generated"
    /\ UNCHANGED <<viewVars, representatives, payments, billingData, importVars, generatorVars>>

\* Time passes between two operator actions; Date.now() is read by the
\* handlers only.
ClockSteps == {SuffixMod - StepMs}

Tick(d) ==
    /\ now + d <= MaxClock
    /\ now' = now + d
    /\ UNCHANGED <<viewVars, serverVars, importVars, generatorVars, toast, request>>

\* Representatives as the two dialogs create them: the tiered dialog sets
\* price1Month and leaves pricePerGb and discountPercent at their defaults,
\* the legacy dialog sets pricePerGb and discountPercent.
TieredPrices == {DefaultPrice, 60000}
Percents == {0, 10, 100}

RepTables ==
    {<<Rep(1, "u1", p1, DefaultPrice, 0), Rep(2, "u2", DefaultPrice, 1000, pct)>> :
        p1 \in TieredPrices, pct \in Percents}

\* Billing tables as the import page saves them
Saved(rows, month) == processRawData(rows, month).records

GenSheets ==
    {<<Row("admin_username", StrCell("u1"), "data_usage", NumCell(Whole(2))),
       Row("admin_username", StrCell("u1"), "data_usage", NumCell(Whole(3))),
       Row("admin_username", StrCell("u2"), "data_usage", NumCell(Whole(100)))>>,
     <<Row("admin_username", StrCell("u2"), "data_usage", NumCell(Whole(100)))>>,
     <<Row("admin_username", StrCell("u2"), "data_usage", NumCell(Num(0, 1234))),
       Row("admin_username", StrCell("u1"), "data_usage", NumCell(Whole(5)))>>,
     <<Row("admin_username", StrCell("u9"), "data_usage", NumCell(Whole(5)))>>,
     <<Row("admin_username", StrCell("u9"), "data_usage", NumCell(Whole(5))),
       Row("admin_username", StrCell("u1"), "data_usage", NumCell(Whole(5)))>>,
     <<Row("admin_username", StrCell("u2"), "data_usage", NumCell(Whole(100))),
       Row("admin_username", StrCell("u9"), "data_usage", NumCell(Whole(5))),
       Row("admin_username", StrCell("u1"), "data_usage", NumCell(Whole(5)))>>}

OtherMonthSheet ==
    <<Row("admin_username", StrCell("u2"), "data_usage", NumCell(Whole(7)))>>

BillingTables ==
    {Saved(sheet, "2025-03") \o tail :
        sheet \in GenSheets, tail \in {<<>>, Saved(OtherMonthSheet, "")}}

\* The page with a month chosen: selectedMonth, the billing table and the
\* representatives are the inputs of processInvoiceData.
InitGen ==
    /\ representatives \in RepTables
    /\ billingData \in BillingTables
    /\ invoices = <<>>
    /\ payments = <<>>
    /\ now = 0
    /\ file = NoFile
    /\ importMonth = ""
    /\ processedData = NoData
    /\ selectedMonth \in {"2025-03", CurrentCalendarMonth}
    /\ invoiceData = <<>>
    /\ generateAll = TRUE
    /\ selectedReps = {}
    /\ toast = ""
    /\ request = <<>>
    /\ searchTerm = ""
    /\ statusFilter = "all"
    /\ selectedContacts = {}
    /\ openedLinks = <<>>
    /\ accountingStatusFilter = "all"

NextGen ==
    \/ \E m \in {"2025-03", CurrentCalendarMonth} : setSelectedMonth(m)
    \/ processInvoiceData
    \/ \E checked \in BOOLEAN : setGenerateAll(checked)
    \/ \E repId \in {1, 2}, checked \in BOOLEAN : handleRepresentativeSelect(repId, checked)
    \/ handleGenerateInvoices
    \/ \E d \in ClockSteps : Tick(d)

SpecGen == InitGen /\ [][NextGen]_vars

----------------------------------------------------------------------------
(* Several imports, then the calculation                                   *)

\* a POST /api/billing-data that replaces the rows of the months it brings
RECURSIVE RowsOfOtherMonths(_, _)
RowsOfOtherMonths(table, body) ==
    IF table = <<>> THEN <<>>
    ELSE (IF \E i \in 1..Len(body) : body[i].month = Head(table).month
          THEN <<>> ELSE <<Head(table)>>)
         \o RowsOfOtherMonths(Tail(table), body)

PostBillingDataSuperseding(body) == billingData' = RowsOfOtherMonths(billingData, body) \o body

\* POST /api/billing-data: the body must be an array, it is handed to
\* storage.createBillingData as it is
PostBillingData(body) == billingData' = createBillingData(body)

\* saveBillingDataMutation of the import page with the records of a
\* processed sheet, and its onSuccess
SaveBillingData(body) ==
    /\ Len(body) > 0
    /\ Len(billingData) + Len(body) <= MaxStored
    /\ PostBillingData(body)
    /\ toast' = "import: saved"
    /\ UNCHANGED <<viewVars, representatives, invoices, payments, now, importVars, generatorVars, request>>

FlowSheets ==
    {<<Row("admin_username", StrCell("u2"), "data_usage", NumCell(Whole(100)))>>,
     <<Row("admin_username", StrCell("u2"), "data_usage", NumCell(Num(0, 1234))),
       Row("admin_username", StrCell("u1"), "data_usage", NumCell(Whole(5)))>>,
     <<Row("admin_username", StrCell("u9"), "data_usage", NumCell(Whole(5))),
       Row("admin_username", StrCell("u1"), "data_usage", NumCell(Whole(5)))>>}

FlowBatches == {Saved(sheet, m) : sheet \in FlowSheets, m \in ImportMonths}

InitFlow ==
    /\ representatives \in RepTables
    /\ billingData = <<>>
    /\ invoices = <<>>
    /\ payments = <<>>
    /\ now = 0
    /\ file = NoFile
    /\ importMonth = ""
    /\ processedData = NoData
    /\ selectedMonth \in {"2025-03", CurrentCalendarMonth}
    /\ invoiceData = <<>>
    /\ generateAll = TRUE
    /\ selectedReps = {}
    /\ toast = ""
    /\ request = <<>>
    /\ searchTerm = ""
    /\ statusFilter = "all"
    /\ selectedContacts = {}
    /\ openedLinks = <<>>
    /\ accountingStatusFilter = "all"

NextFlow ==
    \/ \E body \in FlowBatches : SaveBillingData(body)
    \/ \E m \in {"2025-03", CurrentCalendarMonth} : setSelectedMonth(m)
    \/ processInvoiceData

SpecFlow == InitFlow /\ [][NextFlow]_vars

----------------------------------------------------------------------------
(* Ledger: invoices, payments, status changes, accounting summary          *)

\* POST /api/invoices/generate-batch with the request body batch
PostGenerateBatch(batch) ==
    /\ Len(invoices) + Len(batch) <= MaxInvoices
    /\ now' = now + StepMs * Len(batch)
    /\ request' = batch
    /\ invoices' = GenerateBatch(invoices, batch, now')
    /\ toast' = "generator: invoices generated"
    /\ UNCHANGED <<viewVars, representatives, payments, billingData, importVars, generatorVars>>

\* a payment that also marks the representative's invoices paid once covered
PostPaymentsMarkPaid(representativeId, amount) ==
    /\ payments' = createPayment(payments, representativeId, amount * 100)
    /\ invoices' = [i \in 1..Len(invoices) |->
                      IF invoices[i].representativeId = representativeId
                      THEN [invoices[i] EXCEPT !.status = "paid"] ELSE invoices[i]]

\* POST /api/payments: insertPaymentSchema.parse, storage.createPayment;
\* amount is a decimal(12,2) column, the other fields of the body are
\* taken as accepted by the schema
PostPayments(representativeId, amount) ==
    /\ payments' = createPayment(payments, representativeId, amount * 100)
    /\ UNCHANGED invoices

\* PaymentDialog: the form accepts an amount above zero, then the mutation
\* and its onSuccess
PaymentDialogSubmit(representativeId, amount) ==
    /\ IF amount > 0
       THEN /\ Len(payments) < MaxPayments
            /\ PostPayments(representativeId, amount)
            /\ toast' = "payment: saved"
       ELSE /\ toast' = "payment: amount must be positive"
            /\ UNCHANGED <<invoices, payments>>
    /\ UNCHANGED <<viewVars, representatives, billingData, now, importVars, generatorVars, request>>

\* the items of the status Select of an invoice row
StatusItems == {"pending", "paid", "overdue", "cancelled"}

\* InvoiceCenter: onValueChange of the row's Select, PATCH /api/invoices/:id
\* with {status}, storage.updateInvoice, onSuccess
handleStatusChange(invoiceId, newStatus) ==
    /\ \E i \in 1..Len(invoices) :
          invoices[i].id = invoiceId /\ invoices[i].status # newStatus
    /\ invoices' = updateInvoice(invoices, invoiceId, newStatus)
    /\ toast' = "invoices: status updated"
    /\ UNCHANGED <<viewVars, representatives, payments, billingData, now, importVars,
                   generatorVars, request>>

\* AccountingDashboard.accountingSummary
RECURSIVE SumFinalAmount(_, _)
SumFinalAmount(table, repId) ==
    IF table = <<>> THEN 0
    ELSE (IF Head(table).representativeId = repId THEN Head(table).finalAmount ELSE 0)
         + SumFinalAmount(Tail(table), repId)

RECURSIVE SumPendingFinalAmount(_, _)
SumPendingFinalAmount(table, repId) ==
    IF table = <<>> THEN 0
    ELSE (IF Head(table).representativeId = repId /\ Head(table).status = "pending"
          THEN Head(table).finalAmount ELSE 0)
         + SumPendingFinalAmount(Tail(table), repId)

RECURSIVE SumAmount(_, _)
SumAmount(table, repId) ==
    IF table = <<>> THEN 0
    ELSE (IF Head(table).representativeId = repId THEN Head(table).amount ELSE 0)
         + SumAmount(Tail(table), repId)

totalInvoicedPendingOnly(repId) == SumPendingFinalAmount(invoices, repId)

totalInvoiced(repId) == SumFinalAmount(invoices, repId)

totalPaid(repId) == SumAmount(payments, repId)

SummaryStatusDebtorAtZero(outstanding) ==
    IF outstanding >= 0 THEN "debtor" ELSE "creditor"

SummaryStatus(outstanding) ==
    IF outstanding > 0 THEN "debtor"
    ELSE IF outstanding < 0 THEN "creditor"
    ELSE "balanced"

Undefined == [undefined |-> TRUE]

\* new Date(Math.max(...repPayments.map(p => new Date(p.paymentDate).getTime())))
lastPayment(repId) ==
    LET dates == {payments[i].paymentDate : i \in {j \in 1..Len(payments) :
                                                     payments[j].representativeId = repId}}
    IN IF dates = {} THEN Undefined
       ELSE CHOOSE t \in dates :
               \A u \in dates : t.d > u.d \/ (t.d = u.d /\ t.ms >= u.ms)

\* an oldestUnpaid that also looks at overdue invoices
oldestUnpaidWithOverdue(repId) ==
    LET dates == {invoices[i].createdAt : i \in {j \in 1..Len(invoices) :
                     /\ invoices[j].representativeId = repId
                     /\ invoices[j].status \in {"pending", "overdue"}}}
    IN IF dates = {} THEN Undefined
       ELSE CHOOSE t \in dates :
               \A u \in dates : t.d < u.d \/ (t.d = u.d /\ t.ms <= u.ms)

\* new Date(Math.min(...unpaidInvoices.map(inv => new Date(inv.createdAt).getTime())))
oldestUnpaid(repId) ==
    LET dates == {invoices[i].createdAt : i \in {j \in 1..Len(invoices) :
                     /\ invoices[j].representativeId = repId
                     /\ invoices[j].status = "pending"}}
    IN IF dates = {} THEN Undefined
       ELSE CHOOSE t \in dates :
               \A u \in dates : t.d < u.d \/ (t.d = u.d /\ t.ms <= u.ms)

accountingSummary ==
    [i \in 1..Len(representatives) |->
        LET rep == representatives[i]
            outstanding == totalInvoiced(rep.id) - totalPaid(rep.id)
        IN [representative |-> rep,
            totalInvoiced |-> totalInvoiced(rep.id),
            totalPaid |-> totalPaid(rep.id),
            outstanding |-> outstanding,
            status |-> SummaryStatus(outstanding),
            lastPayment |-> lastPayment(rep.id),
            oldestUnpaid |-> oldestUnpaid(rep.id)]]

\* AccountingDashboard.filteredSummaries, with the search box left empty:
\* new Date().getTime() - oldestUnpaid.getTime() > 30 * 24 * 60 * 60 * 1000
\* compares days first, the milliseconds of the day being below one day
filteredSummaries ==
    LET matchesStatus(summary) ==
            \/ accountingStatusFilter = "all"
            \/ accountingStatusFilter = "debtor" /\ summary.status = "debtor"
            \/ accountingStatusFilter = "creditor" /\ summary.status = "creditor"
            \/ accountingStatusFilter = "balanced" /\ summary.status = "balanced"
            \/ /\ accountingStatusFilter = "overdue"
               /\ summary.oldestUnpaid # Undefined
               /\ \/ Today - summary.oldestUnpaid.d > 30
                  \/ /\ Today - summary.oldestUnpaid.d = 30
                     /\ now - summary.oldestUnpaid.ms > 0
    IN SelectSeq(accountingSummary, matchesStatus)

\* the status Select of the accounting dashboard
setAccountingStatusFilter(filter) ==
    /\ accountingStatusFilter' = filter
    /\ UNCHANGED <<serverVars, now, importVars, generatorVars, toast, request, telegramVars>>

\* The ledger's inputs
LedgerReps == <<Rep(1, "u3", DefaultPrice, DefaultPrice, 0),
                Rep(2, "u2", DefaultPrice, 1000, 10)>>
LedgerAmounts == {100000, 50000}
PaymentAmounts == {80000, 50000, 0}

LedgerBatches ==
    {<<[representativeId |-> repId,
        invoiceNumber |-> generateInvoiceNumber(repId, "2025-03", now),
        month |-> "2025-03",
        totalAmount |-> Money(a, 0),
        discountAmount |-> Zero,
        finalAmount |-> Money(a, 0),
        status |-> "pending"]>> : repId \in {1, 2}, a \in LedgerAmounts}

Init ==
    /\ representatives = LedgerReps
    /\ billingData = <<>>
    /\ invoices = <<>>
    /\ payments = <<>>
    /\ now = 0
    /\ file = NoFile
    /\ importMonth = ""
    /\ processedData = NoData
    /\ selectedMonth = ""
    /\ invoiceData = <<>>
    /\ generateAll = TRUE
    /\ selectedReps = {}
    /\ toast = ""
    /\ request = <<>>
    /\ searchTerm = ""
    /\ statusFilter = "all"
    /\ selectedContacts = {}
    /\ openedLinks = <<>>
    /\ accountingStatusFilter = "all"

Next ==
    \/ \E batch \in LedgerBatches : PostGenerateBatch(batch)
    \/ \E repId \in {1, 2}, amount \in PaymentAmounts : PaymentDialogSubmit(repId, amount)
    \/ \E invoiceId \in 1..MaxInvoices, newStatus \in StatusItems :
          handleStatusChange(invoiceId, newStatus)

Spec == Init /\ [][Next]_vars

----------------------------------------------------------------------------
(* Representatives page, the two representative dialogs, Telegram links    *)

\* username.replace('@', ''): the first '@' is removed, wherever it is
RECURSIVE ReplaceAt(_)
ReplaceAt(s) ==
    IF s = <<>> THEN <<>>
    ELSE IF Head(s) = "@" THEN Tail(s)
    ELSE <<Head(s)>> \o ReplaceAt(Tail(s))

\* String.prototype.trim
RECURSIVE TrimStart(_)
TrimStart(s) == IF s # <<>> /\ Head(s) = " " THEN TrimStart(Tail(s)) ELSE s

RECURSIVE TrimEnd(_)
TrimEnd(s) ==
    IF s # <<>> /\ s[Len(s)] = " " THEN TrimEnd(SubSeq(s, 1, Len(s) - 1)) ELSE s

TrimChars(s) == TrimEnd(TrimStart(s))

\* /^@?[a-zA-Z0-9_]{5,32}$/ on the characters that occur
WordChars == {"a", "l", "i", "c", "e", "1", "2", "3", "_"}

validateTelegramUsername(s) ==
    LET body == IF s # <<>> /\ Head(s) = "@" THEN Tail(s) ELSE s
    IN /\ Len(body) >= 5
       /\ Len(body) <= 32
       /\ \A c \in 1..Len(body) : body[c] \in WordChars

\* createTelegramLink
createTelegramLink(username) == <<"https://t.me/">> \o ReplaceAt(username)

NoLink == <<>>

\* TelegramManager.telegramContacts
hasTelegram(rep) == Truthy(Or(rep.telegramId, rep.telegramUsername))

telegramLink(rep) ==
    IF Truthy(Or(rep.telegramUsername, rep.telegramId))
    THEN createTelegramLink(Or(rep.telegramUsername, rep.telegramId).s)
    ELSE NoLink

telegramContacts ==
    [i \in 1..Len(representatives) |->
        [representative |-> representatives[i],
         hasTelegram |-> hasTelegram(representatives[i]),
         telegramLink |-> telegramLink(representatives[i])]]

telegramContactsCount ==
    Cardinality({i \in 1..Len(telegramContacts) : telegramContacts[i].hasTelegram})
missingContactsCount ==
    Cardinality({i \in 1..Len(telegramContacts) : ~telegramContacts[i].hasTelegram})

\* Representatives.filteredRepresentatives: the telegram filter
matchesTelegram(rep, telegramFilter) ==
    \/ telegramFilter = "all"
    \/ telegramFilter = "has_telegram" /\ Truthy(rep.telegramId)
    \/ telegramFilter = "no_telegram" /\ ~Truthy(rep.telegramId)

\* Representatives: the telegram line of a representative's card
RepCardLink(rep) ==
    IF Truthy(rep.telegramId)
    THEN createTelegramLink(Or(rep.telegramUsername, rep.telegramId).s)
    ELSE NoLink

\* InvoiceCenter.handlePreview: the invoice handed to InvoicePreview is the
\* invoice row with representativeName and username added; it has no
\* telegramId and no telegramUsername
handlePreview(invoice, rep) ==
    [representativeId |-> invoice.representativeId,
     username |-> rep.username,
     month |-> invoice.month,
     telegramId |-> NullText,
     telegramUsername |-> NullText]

\* InvoicePreview: the invoice number shown, put in the file names and in
\* the Telegram message is computed when the component renders, at time at
InvoicePreviewNumber(invoice, at) ==
    generateInvoiceNumber(invoice.representativeId, invoice.month, at)

\* InvoicePreview.sendToTelegram: the link opened, or none with an error toast
sendToTelegram(invoice) ==
    LET telegramId == Or(invoice.telegramId, invoice.telegramUsername)
    IN IF ~Truthy(telegramId) THEN NoLink
       ELSE <<"https://t.me/">> \o ReplaceAt(telegramId.s) \o <<"?text=">>

\* storage.createRepresentative: id is serial, username is unique.  An id
\* is never given twice; the id of a deleted row that nothing refers to is
\* indistinguishable from a fresh one and is given again here.
RepIds == {1, 2}

UsedIds ==
    {representatives[i].id : i \in 1..Len(representatives)}
       \cup {invoices[i].representativeId : i \in 1..Len(invoices)}
       \cup {payments[i].representativeId : i \in 1..Len(payments)}

UsernameTaken(username, exceptId) ==
    \E i \in 1..Len(representatives) :
        representatives[i].username = username /\ representatives[i].id # exceptId

createRepresentative(table, id, rep) ==
    Append(table, [Rep(id, rep.username, DefaultPrice, DefaultPrice, 0)
                      EXCEPT !.telegramId = rep.telegramId,
                             !.telegramUsername = rep.telegramUsername])

\* storage.updateRepresentative(id, rep): set({...rep})
updateRepresentative(table, id, rep) ==
    [i \in 1..Len(table) |->
        IF table[i].id = id
        THEN [table[i] EXCEPT !.username = rep.username,
                              !.telegramId = rep.telegramId,
                              !.telegramUsername = rep.telegramUsername]
        ELSE table[i]]

\* storage.deleteRepresentative(id)
RECURSIVE deleteRepresentative(_, _)
deleteRepresentative(table, id) ==
    IF table = <<>> THEN <<>>
    ELSE (IF Head(table).id = id THEN <<>> ELSE <<Head(table)>>)
         \o deleteRepresentative(Tail(table), id)

\* insertRepresentativeSchema: telegramId and telegramUsername are
\* z.string().optional(), which refuses null
SchemaAccepts(rep) == ~rep.telegramId.null /\ ~rep.telegramUsername.null

\* POST /api/representatives
PostRepresentatives(rep) ==
    IF SchemaAccepts(rep) /\ ~UsernameTaken(rep.username, 0)
    THEN /\ \E id \in RepIds \ UsedIds :
               /\ \A other \in RepIds \ UsedIds : id <= other
               /\ representatives' = createRepresentative(representatives, id, rep)
         /\ toast' = "representatives: saved"
    ELSE /\ toast' = "representatives: error"
         /\ UNCHANGED representatives

\* PUT /api/representatives/:id
PutRepresentatives(id, rep) ==
    IF SchemaAccepts(rep) /\ ~UsernameTaken(rep.username, id)
    THEN /\ representatives' = updateRepresentative(representatives, id, rep)
         /\ toast' = "representatives: saved"
    ELSE /\ toast' = "representatives: error"
         /\ UNCHANGED representatives

\* the tiered RepresentativeDialog, creating: the form values are posted
\* as they are
RepresentativeDialogSubmit(username, telegramId, telegramUsername) ==
    /\ RepIds \ UsedIds # {}
    /\ PostRepresentatives([username |-> username, telegramId |-> Text(telegramId),
                            telegramUsername |-> Text(telegramUsername)])
    /\ UNCHANGED <<viewVars, invoices, payments, billingData, now, importVars, generatorVars, request>>

\* the legacy dialog: the telegram username must be blank or valid, empty
\* fields are sent as null; editing is 0 when the dialog creates
LegacyPayload(username, telegramId, telegramUsername) ==
    [username |-> username,
     telegramId |-> Or(Text(telegramId), NullText),
     telegramUsername |-> Or(Text(telegramUsername), NullText)]

LegacyDialogSubmit(editing, username, telegramId, telegramUsername) ==
    /\ editing = 0 => RepIds \ UsedIds # {}
    /\ editing # 0 => \E i \in 1..Len(representatives) : representatives[i].id = editing
    /\ IF ~(TrimChars(telegramUsername) = <<>> \/ validateTelegramUsername(telegramUsername))
       THEN UNCHANGED <<representatives, toast>>
       ELSE IF editing = 0
       THEN PostRepresentatives(LegacyPayload(username, telegramId, telegramUsername))
       ELSE PutRepresentatives(editing, LegacyPayload(username, telegramId, telegramUsername))
    /\ UNCHANGED <<viewVars, invoices, payments, billingData, now, importVars, generatorVars, request>>

\* DELETE /api/representatives/:id
DeleteRepresentatives(id) ==
    /\ representatives' = deleteRepresentative(representatives, id)
    /\ UNCHANGED payments

\* Representatives.handleDelete, confirmed
handleDelete(id) ==
    /\ \E i \in 1..Len(representatives) : representatives[i].id = id
    /\ DeleteRepresentatives(id)
    /\ toast' = "representatives: deleted"
    /\ UNCHANGED <<viewVars, invoices, billingData, now, importVars, generatorVars, request>>

\* the second PaymentDialog: its form only requires a non-empty amount,
\* parseFloat(amount) is posted
PaymentDialogHandleSubmit(representativeId, amount) ==
    /\ Len(payments) < MaxPayments
    /\ PostPayments(representativeId, amount)
    /\ toast' = "payment: saved"
    /\ UNCHANGED <<viewVars, representatives, billingData, now, importVars, generatorVars, request>>

\* POST /api/payments called with a body of the schema's shape
PostPaymentsRequest(representativeId, amount) ==
    /\ Len(payments) < MaxPayments
    /\ PostPayments(representativeId, amount)
    /\ UNCHANGED <<viewVars, representatives, billingData, now, importVars, generatorVars,
                   toast, request>>

\* The inputs of the representatives specification
TelegramInputs ==
    {<< <<>>, <<>> >>,
     << <<" ">>, <<>> >>,
     << <<"1", "2", "3">>, <<"@", "a", "l", "i", "c", "e">> >>,
     << <<>>, <<"@", "a", "l", "i", "c", "e">> >>,
     << <<"1", "2", "3">>, <<" ">> >>,
     << <<"1", "2", "3">>, <<"a", "l", "i", "c", "e", "@">> >>}
NewUsernames == {"u1", "u2"}
EditUsernames == {"u1", "u3"}
RepsPaymentAmounts == {50000, 0, -50000}

RepsBatches ==
    {batch \in LedgerBatches :
        /\ batch[1].totalAmount = Money(100000, 0)
        /\ \E i \in 1..Len(representatives) :
              representatives[i].id = batch[1].representativeId}

InitReps ==
    /\ representatives = <<>>
    /\ billingData = <<>>
    /\ invoices = <<>>
    /\ payments = <<>>
    /\ now = 0
    /\ file = NoFile
    /\ importMonth = ""
    /\ processedData = NoData
    /\ selectedMonth = ""
    /\ invoiceData = <<>>
    /\ generateAll = TRUE
    /\ selectedReps = {}
    /\ toast = ""
    /\ request = <<>>
    /\ searchTerm = ""
    /\ statusFilter = "all"
    /\ selectedContacts = {}
    /\ openedLinks = <<>>
    /\ accountingStatusFilter = "all"

NextReps ==
    \/ \E username \in NewUsernames, t \in TelegramInputs :
          RepresentativeDialogSubmit(username, t[1], t[2])
    \/ \E editing \in {0} \cup RepIds, username \in EditUsernames, t \in TelegramInputs :
          LegacyDialogSubmit(editing, username, t[1], t[2])
    \/ \E id \in RepIds : handleDelete(id)
    \/ \E batch \in RepsBatches : PostGenerateBatch(batch)
    \/ \E i \in 1..Len(representatives), amount \in RepsPaymentAmounts :
          PaymentDialogSubmit(representatives[i].id, amount)
    \/ \E i \in 1..Len(representatives), amount \in RepsPaymentAmounts :
          PaymentDialogHandleSubmit(representatives[i].id, amount)
    \/ \E i \in 1..Len(representatives), amount \in RepsPaymentAmounts :
          PostPaymentsRequest(representatives[i].id, amount)

SpecReps == InitReps /\ [][NextReps]_vars

----------------------------------------------------------------------------
(* Telegram manager: selection and sending; the views over given tables    *)

\* TelegramManager.filteredContacts; the search term is one of those that
\* occur, which is contained in a username only when equal to it, and
\* the representative's name is taken not to contain it
filteredContacts ==
    LET matches(contact) ==
            /\ searchTerm = "" \/ contact.representative.username = searchTerm
            /\ \/ statusFilter = "all"
               \/ statusFilter = "has_telegram" /\ contact.hasTelegram
               \/ statusFilter = "no_telegram" /\ ~contact.hasTelegram
               \/ /\ statusFilter = "pending_invoices"
                  /\ SumPendingFinalAmount(invoices, contact.representative.id) > 0
    IN SelectSeq(telegramContacts, matches)

setSearchTerm(term) ==
    /\ searchTerm' = term
    /\ UNCHANGED <<serverVars, now, importVars, generatorVars, toast, request,
                   statusFilter, selectedContacts, openedLinks, accountingStatusFilter>>

setStatusFilter(filter) ==
    /\ statusFilter' = filter
    /\ UNCHANGED <<serverVars, now, importVars, generatorVars, toast, request,
                   searchTerm, selectedContacts, openedLinks, accountingStatusFilter>>

\* the checkbox of a listed contact that has a channel
handleContactSelect(contactId, checked) ==
    /\ \E i \in 1..Len(filteredContacts) :
          /\ filteredContacts[i].representative.id = contactId
          /\ filteredContacts[i].hasTelegram
    /\ selectedContacts' = IF checked THEN selectedContacts \cup {contactId}
                           ELSE selectedContacts \ {contactId}
    /\ UNCHANGED <<serverVars, now, importVars, generatorVars, toast, request,
                   searchTerm, statusFilter, openedLinks, accountingStatusFilter>>

handleSelectAll(checked) ==
    /\ selectedContacts' =
          IF checked
          THEN {filteredContacts[i].representative.id :
                   i \in {j \in 1..Len(filteredContacts) : filteredContacts[j].hasTelegram}}
          ELSE {}
    /\ UNCHANGED <<serverVars, now, importVars, generatorVars, toast, request,
                   searchTerm, statusFilter, openedLinks, accountingStatusFilter>>

\* the send button is enabled with a selection and a message template; one
\* link per selected, listed contact with a channel is opened
handleSendMessages(template) ==
    /\ selectedContacts # {}
    /\ template # ""
    /\ LET selected(contact) ==
               contact.representative.id \in selectedContacts /\ contact.hasTelegram
           selectedContactsData == SelectSeq(filteredContacts, selected)
           telegramUsername(rep) ==
               Or(IF rep.telegramUsername.null THEN NullText
                  ELSE Text(ReplaceAt(rep.telegramUsername.s)), rep.telegramId)
       IN IF Len(selectedContactsData) = 0
          THEN /\ toast' = "telegram: no contact selected"
               /\ openedLinks' = <<>>
          ELSE /\ openedLinks' =
                     [i \in 1..Len(selectedContactsData) |->
                         [representativeId |-> selectedContactsData[i].representative.id,
                          link |-> <<"https://t.me/">>
                                      \o telegramUsername(selectedContactsData[i].representative).s
                                      \o <<"?text=">>]]
               /\ toast' = "telegram: links opened"
    /\ UNCHANGED <<serverVars, now, importVars, generatorVars, request,
                   searchTerm, statusFilter, selectedContacts, accountingStatusFilter>>

\* The tables the views are opened on
ViewReps ==
    {createRepresentative(
        createRepresentative(<<>>, 1, [username |-> "u1", telegramId |-> Text(<<"1", "2", "3">>),
                                       telegramUsername |-> Text(<<"@", "a", "l", "i", "c", "e">>)]),
        2, [username |-> "u2", telegramId |-> Text(<<>>), telegramUsername |-> Text(t)]) :
        t \in {<<>>, <<"@", "a", "l", "i", "c", "e">>}}

ViewInvoice(id, repId, status, d, ms) ==
    [createInvoiceNoUnique(<<>>, [representativeId |-> repId,
                                  invoiceNumber |-> generateInvoiceNumber(repId, "2025-03", ms),
                                  month |-> "2025-03",
                                  totalAmount |-> Money(100000, 0),
                                  discountAmount |-> Zero,
                                  finalAmount |-> Money(100000, 0),
                                  status |-> status], ms)[1]
        EXCEPT !.id = id, !.createdAt = Timestamp(d, ms)]

ViewInvoices ==
    {<<>>,
     <<ViewInvoice(1, 1, "pending", Today - 30, 0)>>,
     <<ViewInvoice(1, 1, "overdue", Today - 35, 0),
       ViewInvoice(2, 1, "pending", Today - 30, SuffixMod - StepMs)>>,
     <<ViewInvoice(1, 1, "pending", Today - 31, SuffixMod - StepMs),
       ViewInvoice(2, 2, "pending", Today - 5, 0)>>,
     <<ViewInvoice(1, 1, "pending", Today - 5, 0),
       ViewInvoice(2, 1, "pending", Today - 31, 0)>>,
     <<ViewInvoice(1, 2, "paid", Today - 35, 0)>>}

ViewPayment(repId, amount, d) ==
    [createPayment(<<>>, repId, amount * 100)[1] EXCEPT !.paymentDate = Timestamp(d, 0)]

ViewPayments ==
    {<<>>,
     <<ViewPayment(1, 50000, Today - 3)>>,
     <<ViewPayment(1, 50000, Today - 3), ViewPayment(2, 80000, Today - 1),
       ViewPayment(1, 50000, Today - 10)>>}

InitViews ==
    /\ representatives \in ViewReps
    /\ invoices \in ViewInvoices
    /\ payments \in ViewPayments
    /\ billingData = <<>>
    /\ now = 0
    /\ file = NoFile
    /\ importMonth = ""
    /\ processedData = NoData
    /\ selectedMonth = ""
    /\ invoiceData = <<>>
    /\ generateAll = TRUE
    /\ selectedReps = {}
    /\ toast = ""
    /\ request = <<>>
    /\ searchTerm = ""
    /\ statusFilter = "all"
    /\ selectedContacts = {}
    /\ openedLinks = <<>>
    /\ accountingStatusFilter = "all"

NextViews ==
    \/ \E term \in {"", "u1"} : setSearchTerm(term)
    \/ \E filter \in {"all", "has_telegram", "no_telegram", "pending_invoices"} :
          setStatusFilter(filter)
    \/ \E contactId \in RepIds, checked \in BOOLEAN : handleContactSelect(contactId, checked)
    \/ \E checked \in BOOLEAN : handleSelectAll(checked)
    \/ \E template \in {"", "invoice_notification"} : handleSendMessages(template)
    \/ \E filter \in {"all", "debtor", "creditor", "balanced", "overdue"} :
          setAccountingStatusFilter(filter)
    \/ \E d \in ClockSteps : Tick(d)

SpecViews == InitViews /\ [][NextViews]_vars

----------------------------------------------------------------------------
(* Claims on the import page                                               *)

Records == IF processedData = NoData THEN <<>> ELSE processedData.records
RawUsage(record) == ParseFloat(findFieldValue(record.rawData, UsageFields))

\* C9: the usage normaliser has exactly three branches on the parsed value v
\* (v > 1,000,000: v / 2^30; else v > 1,000: v / 1,024; else v), rounded to
\* 3 decimals: 5368709120, 5120 and 5 all give 5.0 GB, 1,000 stays 1000 GB
\* and 1,000,000 is read as MB (976.563 GB).  Usage is in thousandths of GB.
C9_ThreeBranches ==
    \A i \in 1..Len(Records) :
        LET v == RawUsage(Records[i])
            gb == Records[i].dataUsageGb
        IN /\ v = Bytes5G => gb = 5000
           /\ v = Whole(5120) => gb = 5000
           /\ v = Whole(5) => gb = 5000
           /\ v = Whole(1000) => gb = 1000000
           /\ v = Whole(1000000) => gb = 976563

C9_Witness ==
    /\ Len(Records) = 2
    /\ RawUsage(Records[1]) = Whole(1000)
    /\ RawUsage(Records[2]) = Whole(1000000)

\* C10: a row whose identity value is the string "null" is excluded from
\* aggregation (it is not counted among the unique users and no usage record
\* of username "null" reaches billing_data) and raises no error entry.
IdentityOf(row) == findFieldValue(row, IdentityFields)
C10_NullIdentityExcluded ==
    /\ \A i \in 1..Len(billingData) : billingData[i].adminUsername # "null"
    /\ processedData # NoData =>
         /\ processedData.uniqueUsers =
              Cardinality({Records[i].adminUsername : i \in 1..Len(Records)} \ {"null"})
         /\ \A i \in 1..Len(file) :
              IdentityOf(file[i]) = StrCell("null") =>
                 \A e \in 1..Len(processedData.errors) : processedData.errors[e].row # i

\* the row has a column named like one of the identity fields, in any case
IdentityNames == {"admin_username", "username", "admin", "user"}
HasIdentityField(row) == \E c \in 1..Len(row) : ToLowerCase(row[c][1]) \in IdentityNames

RECURSIVE WithIdentity(_)
WithIdentity(rows) ==
    IF rows = <<>> THEN <<>>
    ELSE (IF HasIdentityField(Head(rows)) THEN <<Head(rows)>> ELSE <<>>)
         \o WithIdentity(Tail(rows))

\* C11: a row with no identity field produces exactly one error entry, which
\* names the row and the missing username, and the accepted records, the
\* unique-user count and the usage total are those of the sheet without it.
C11_NoIdentityRowIsAnError ==
    processedData # NoData =>
        /\ \A i \in 1..Len(file) :
              ~HasIdentityField(file[i]) =>
                 /\ Cardinality({e \in 1..Len(processedData.errors) :
                                    processedData.errors[e].row = i}) = 1
                 /\ \E e \in 1..Len(processedData.errors) :
                       /\ processedData.errors[e].row = i
                       /\ processedData.errors[e].reason = "username not found"
                 /\ \A r \in 1..Len(Records) : Records[r].rawData # file[i]
        /\ \E m \in ImportMonths :
              LET rest == processRawData(WithIdentity(file), m)
              IN /\ processedData.records = rest.records
                 /\ processedData.uniqueUsers = rest.uniqueUsers
                 /\ processedData.totalDataUsage = rest.totalDataUsage

\* a processed sheet of an accepted row and a row without identity field
C11_Witness ==
    /\ processedData # NoData
    /\ Len(file) = 2
    /\ HasIdentityField(file[1])
    /\ ~HasIdentityField(file[2])
    /\ processedData.validRecords = 1
    /\ processedData.totalDataUsage = 5000
    /\ processedData.errors = <<[row |-> 2, reason |-> "username not found"]>>

\* the rows of the sheet, in order, that have no entry in the error list
ErrorRows == {processedData.errors[e].row : e \in 1..Len(processedData.errors)}

RECURSIVE RowsNotIn(_, _, _)
RowsNotIn(rows, i, excluded) ==
    IF i > Len(rows) THEN <<>>
    ELSE (IF i \in excluded THEN <<>> ELSE <<rows[i]>>) \o RowsNotIn(rows, i + 1, excluded)

\* C12: processRawData partitions the sheet: the error list has at most one
\* entry per row, the accepted records are exactly the remaining rows in
\* order, totalRecords = validRecords + invalidRecords, every accepted
\* record has dataUsageGb >= 0; and the save action appends exactly the
\* accepted records to billing_data.
C12_Partition ==
    /\ [](processedData # NoData =>
            /\ processedData.totalRecords = Len(file)
            /\ processedData.totalRecords
                  = processedData.validRecords + processedData.invalidRecords
            /\ processedData.validRecords = Len(processedData.records)
            /\ processedData.invalidRecords = Len(processedData.errors)
            /\ ErrorRows \subseteq 1..Len(file)
            /\ Cardinality(ErrorRows) = Len(processedData.errors)
            /\ [r \in 1..Len(Records) |-> Records[r].rawData]
                  = RowsNotIn(file, 1, ErrorRows)
            /\ \A r \in 1..Len(Records) : Records[r].dataUsageGb >= 0)
    /\ [][billingData' # billingData =>
             /\ processedData # NoData
             /\ billingData' = billingData \o processedData.records]_vars

\* a processed sheet of one accepted row and one row rejected for its usage
C12_Witness ==
    /\ processedData # NoData
    /\ processedData.totalRecords = 2
    /\ processedData.validRecords = 1
    /\ processedData.invalidRecords = 1
    /\ processedData.errors[1].reason = "usage invalid"

----------------------------------------------------------------------------
(* Claims on the invoice generator (SpecGen)                               *)

MoneyAdd(a, b) == Money(a.w + b.w + (a.f + b.f) \div 100000, (a.f + b.f) % 100000)
MoneyScale(a, n) == Money(a.w * n + (a.f * n) \div 100000, (a.f * n) % 100000)
MoneyLe(a, b) == a.w < b.w \/ (a.w = b.w /\ a.f <= b.f)

RepById(id) == CHOOSE r \in {representatives[i] : i \in 1..Len(representatives)} : r.id = id

\* the accepted usage of a username in a month, in thousandths of a GB
RECURSIVE SumUsage(_)
SumUsage(indices) ==
    IF indices = {} THEN 0
    ELSE LET i == CHOOSE j \in indices : TRUE
         IN billingData[i].dataUsageGb + SumUsage(indices \ {i})

UsageOf(username, month) ==
    SumUsage({i \in 1..Len(billingData) :
                 billingData[i].adminUsername = username /\ billingData[i].month = month})

\* C3: every invoice handed to persistence with a discount percentage in
\* [0,100] has finalAmount = totalAmount - discountAmount, and so
\* 0 <= finalAmount <= totalAmount.
C3_FinalIsTotalMinusDiscount ==
    \A i \in 1..Len(request) :
        LET pct == RepById(request[i].representativeId).discountPercent
        IN (pct >= 0 /\ pct <= 100) =>
              /\ MoneyAdd(request[i].finalAmount, request[i].discountAmount)
                    = request[i].totalAmount
              /\ MoneyLe(Zero, request[i].finalAmount)
              /\ MoneyLe(request[i].finalAmount, request[i].totalAmount)

\* a batch of two was handed over, one invoice with a 10 percent discount
C3_Witness ==
    /\ Len(request) = 2
    /\ Len(invoices) = 2
    /\ \E i \in 1..Len(request) :
          /\ RepById(request[i].representativeId).discountPercent = 10
          /\ request[i].discountAmount # Zero
          /\ request[i].finalAmount # request[i].totalAmount

\* C4: a draft's totalAmount is the sum of the username's accepted usage in
\* the target month times the unit price, and the discountAmount handed over
\* with it is totalAmount * discountPercent / 100.
C4_TotalIsUsageTimesPrice ==
    /\ \A i \in 1..Len(invoiceData) :
          LET d == invoiceData[i]
          IN /\ d.dataUsageGb = UsageOf(d.username, d.month)
             /\ MoneyScale(d.totalAmount, 1000)
                   = Money(UsageOf(d.username, d.month) * d.pricePerGb, 0)
    /\ \A i \in 1..Len(request) :
          MoneyScale(request[i].discountAmount, 100)
             = MoneyScale(request[i].totalAmount,
                          RepById(request[i].representativeId).discountPercent)

\* pricePerGb 1000, discountPercent 10, usage 100 GB: 100000, 10000, 90000,
\* next to a draft that sums rows of 2 and 3 GB
C4_Witness ==
    /\ \E i \in 1..Len(request) :
          /\ RepById(request[i].representativeId).pricePerGb = 1000
          /\ RepById(request[i].representativeId).discountPercent = 10
          /\ UsageOf("u2", request[i].month) = 100000
          /\ request[i].totalAmount = Money(100000, 0)
          /\ request[i].discountAmount = Money(10000, 0)
          /\ request[i].finalAmount = Money(90000, 0)
    /\ \E i \in 1..Len(invoiceData) :
          /\ invoiceData[i].dataUsageGb = 5000
          /\ \E j \in 1..Len(billingData) :
                /\ billingData[j].adminUsername = invoiceData[i].username
                /\ billingData[j].dataUsageGb = 2000

\* the representatives created through the tiered-price dialog
TieredRepIds == {1}

\* C5: a draft of a representative whose tiered prices are set is priced at
\* usage times the tier's per-GB price, not at the legacy pricePerGb.
C5_TieredPriceTakesPrecedence ==
    \A i \in 1..Len(invoiceData) :
        invoiceData[i].representativeId \in TieredRepIds =>
            invoiceData[i].totalAmount
               = MoneyMul(invoiceData[i].dataUsageGb,
                          RepById(invoiceData[i].representativeId).price1Month)

\* C6: at most one invoice exists per (representative, month).
C6_OneInvoicePerRepMonth ==
    \A i, j \in 1..Len(invoices) :
        (invoices[i].representativeId = invoices[j].representativeId
           /\ invoices[i].month = invoices[j].month) => i = j

\* the usernames with usage in the selected month that match no representative
UnmatchedUsernames ==
    {GeneratorBillingData[i].adminUsername : i \in 1..Len(GeneratorBillingData)}
       \ {representatives[i].username : i \in 1..Len(representatives)}

\* what the page shows the operator after the calculation
ShownUsernames == {invoiceData[i].username : i \in 1..Len(invoiceData)}

\* C13: once the drafts are calculated, every username of the month that
\* matches no representative is shown to the operator, in the draft list or
\* in an unmatched notice.
C13_UnmatchedShown ==
    invoiceData # <<>> =>
        \A u \in UnmatchedUsernames :
            u \in ShownUsernames \/ toast = "generator: unmatched usernames"

\* C14: when a generation run writes fewer invoices than it handed over,
\* the operator is told which invoice failed, not that the run succeeded or
\* that the batch failed.
C14_FailureIsAttributed ==
    [][(handleGenerateInvoices
          /\ Len(invoicesToGenerate) > 0
          /\ Len(invoices') < Len(invoices) + Len(request'))
        => toast' = "generator: failed invoices listed"]_vars

\* C15: the invoice numbers a generation run hands over are distinct from
\* each other and from the number of every invoice generated before.
C15_InvoiceNumbersUnique ==
    [][(handleGenerateInvoices /\ Len(invoicesToGenerate) > 0)
        => /\ \A i \in 1..Len(request') :
                 ~InvoiceNumberTaken(invoices, request'[i].invoiceNumber)
           /\ \A i, j \in 1..Len(request') :
                 request'[i].invoiceNumber = request'[j].invoiceNumber => i = j]_vars

----------------------------------------------------------------------------
(* Claims on the ledger (Spec)                                             *)

RECURSIVE SumOver(_, _, _)
SumOver(table, indices, field) ==
    IF indices = {} THEN 0
    ELSE LET i == CHOOSE j \in indices : TRUE
         IN table[i][field] + SumOver(table, indices \ {i}, field)

InvoicesOf(repId) == {i \in 1..Len(invoices) : invoices[i].representativeId = repId}
PaymentsOf(repId) == {i \in 1..Len(payments) : payments[i].representativeId = repId}

\* C1: in every representative summary the classification is debtor iff
\* outstanding > 0, creditor iff outstanding < 0, balanced iff outstanding = 0,
\* and it is one of the three.
C1_ClassificationMatchesOutstanding ==
    \A i \in 1..Len(accountingSummary) :
        LET s == accountingSummary[i]
        IN /\ s.status \in {"debtor", "creditor", "balanced"}
           /\ (s.status = "debtor") <=> (s.outstanding > 0)
           /\ (s.status = "creditor") <=> (s.outstanding < 0)
           /\ (s.status = "balanced") <=> (s.outstanding = 0)

\* one summary balanced on a paid-up invoice, the other a debtor, after a
\* status change
C1_Witness ==
    /\ \E i \in 1..Len(accountingSummary) :
          /\ accountingSummary[i].status = "balanced"
          /\ accountingSummary[i].totalPaid > 0
    /\ \E i \in 1..Len(accountingSummary) : accountingSummary[i].status = "debtor"
    /\ \E i \in 1..Len(invoices) : invoices[i].status # "pending"

\* C2: a representative's outstanding is the sum of finalAmount over all of
\* the representative's invoices, whatever their status, minus the sum of
\* amount over the representative's payments.
C2_OutstandingIsInvoicedMinusPaid ==
    \A i \in 1..Len(accountingSummary) :
        LET s == accountingSummary[i]
            id == s.representative.id
        IN /\ s.totalInvoiced = SumOver(invoices, InvoicesOf(id), "finalAmount")
           /\ s.totalPaid = SumOver(payments, PaymentsOf(id), "amount")
           /\ s.outstanding = SumOver(invoices, InvoicesOf(id), "finalAmount")
                                - SumOver(payments, PaymentsOf(id), "amount")

\* u3 has invoices of 100000 and 50000, one of them no longer pending, and a
\* payment of 80000: invoiced 150000, paid 80000, outstanding 70000, debtor
C2_Witness ==
    /\ {invoices[i].finalAmount : i \in InvoicesOf(1)} = {10000000, 5000000}
    /\ \E i \in InvoicesOf(1) : invoices[i].status \in {"paid", "cancelled"}
    /\ {payments[i].amount : i \in PaymentsOf(1)} = {8000000}
    /\ accountingSummary[1].totalInvoiced = 15000000
    /\ accountingSummary[1].totalPaid = 8000000
    /\ accountingSummary[1].outstanding = 7000000
    /\ accountingSummary[1].status = "debtor"

\* the one-step moves of the manual state machine
AllowedMoves ==
    {<<"pending", "sent">>, <<"pending", "cancelled">>,
     <<"sent", "paid">>, <<"sent", "overdue">>, <<"sent", "cancelled">>,
     <<"overdue", "paid">>, <<"overdue", "cancelled">>}

\* C7: every change of an invoice's status is a move of the manual state
\* machine; paid and cancelled are terminal.
C7_StatusStateMachine ==
    [][\A i \in 1..Len(invoices) :
          invoices'[i].status # invoices[i].status =>
              <<invoices[i].status, invoices'[i].status>> \in AllowedMoves]_vars

\* C8: recording a payment leaves the status of every invoice unchanged.
C8_PaymentKeepsStatuses ==
    [][Len(payments') > Len(payments) =>
          /\ Len(invoices') = Len(invoices)
          /\ \A i \in 1..Len(invoices) : invoices'[i].status = invoices[i].status]_vars

\* a payment that covers everything invoiced to the representative has been
\* recorded and the representative's invoices are still pending
C8_Witness ==
    \E repId \in {1, 2} :
        /\ PaymentsOf(repId) # {}
        /\ InvoicesOf(repId) # {}
        /\ totalPaid(repId) >= totalInvoiced(repId)
        /\ \A i \in InvoicesOf(repId) : invoices[i].status = "pending"

----------------------------------------------------------------------------
(* Claims on representatives, Telegram channels and payments               *)

Blank(t) == t.null \/ TrimChars(t.s) = <<>>

\* C16: a representative has a channel exactly when its telegram id or
\* its telegram username is non-empty after trimming, and every
\* representative is counted in exactly one of the reachable and the
\* missing-contact lists
C16_HasTelegramIffNonBlank ==
    /\ \A i \in 1..Len(telegramContacts) :
          telegramContacts[i].hasTelegram
             <=> (~Blank(telegramContacts[i].representative.telegramId)
                    \/ ~Blank(telegramContacts[i].representative.telegramUsername))
    /\ telegramContactsCount + missingContactsCount = Len(representatives)

\* the lists partition the representatives whatever the classification
C16_ListsPartition ==
    telegramContactsCount + missingContactsCount = Len(representatives)

\* the link the claim describes: the username without its leading @, the
\* id only when there is no username, nothing without a channel
StripLeadingAt(s) == IF s # <<>> /\ Head(s) = "@" THEN Tail(s) ELSE s

ExpectedLink(rep) ==
    IF ~Blank(rep.telegramUsername)
    THEN <<"https://t.me/">> \o StripLeadingAt(rep.telegramUsername.s)
    ELSE IF ~Blank(rep.telegramId)
    THEN <<"https://t.me/">> \o StripLeadingAt(rep.telegramId.s)
    ELSE NoLink

\* the link sendToTelegram opens for an invoice previewed from the invoice list
PreviewLink(invoice, rep) ==
    LET opened == sendToTelegram(handlePreview(invoice, rep))
    IN IF opened = NoLink THEN NoLink ELSE SubSeq(opened, 1, Len(opened) - 1)

\* C17: the link of a reachable representative is https://t.me/ followed
\* by the telegram username without its leading @, the telegram id being
\* used only when there is no username, and a representative without a
\* channel gets no link; in the Telegram manager and in the invoice preview
C17_CanonicalLink ==
    /\ \A i \in 1..Len(telegramContacts) :
          telegramContacts[i].telegramLink = ExpectedLink(telegramContacts[i].representative)
    /\ \A j \in 1..Len(invoices), i \in 1..Len(representatives) :
          representatives[i].id = invoices[j].representativeId
             => PreviewLink(invoices[j], representatives[i]) = ExpectedLink(representatives[i])

C19_StoredPaymentsKept ==
    [][/\ Len(payments') >= Len(payments)
       /\ SubSeq(payments', 1, Len(payments)) = payments]_vars

\* C20: once an invoice references a representative, no operation changes
\* that representative's username
C20_UsernameImmutableOnceInvoiced ==
    [][\A i \in 1..Len(representatives), i2 \in 1..Len(representatives') :
          (/\ representatives[i].id = representatives'[i2].id
           /\ \E j \in 1..Len(invoices) : invoices[j].representativeId = representatives[i].id)
             => representatives'[i2].username = representatives[i].username]_vars

----------------------------------------------------------------------------
(* Claims on the calculation of drafts (SpecGen)                           *)

DraftsFor(drafts, repId) == {i \in 1..Len(drafts) : drafts[i].representativeId = repId}

HasUsage(username) ==
    \E i \in 1..Len(GeneratorBillingData) : GeneratorBillingData[i].adminUsername = username

\* C21: a calculation emits exactly one draft for every representative
\* whose username has a usage row in the fetched billing data and none for
\* a representative without usage rows, so no representative is in two
\* drafts of one calculation
C21_OneDraftPerRepresentativeWithUsage ==
    [][(processInvoiceData /\ Len(GeneratorBillingData) > 0)
        => /\ \A i \in 1..Len(representatives) :
                 Cardinality(DraftsFor(invoiceData', representatives[i].id))
                    = IF HasUsage(representatives[i].username) THEN 1 ELSE 0
           /\ \A d \in 1..Len(invoiceData') :
                 \E i \in 1..Len(representatives) :
                    invoiceData'[d].representativeId = representatives[i].id]_vars

\* one draft, for the representative with a usage row in the month, and
\* none for the representative without
C21_Witness ==
    /\ Len(invoiceData) = 1
    /\ invoiceData[1].month = selectedMonth
    /\ Cardinality({i \in 1..Len(GeneratorBillingData) :
                      GeneratorBillingData[i].adminUsername = invoiceData[1].username}) >= 1
    /\ \E i \in 1..Len(representatives) :
          /\ ~HasUsage(representatives[i].username)
          /\ DraftsFor(invoiceData, representatives[i].id) = {}
    /\ Len(GeneratorBillingData) = 2

\* the rows of matched usernames only
RECURSIVE MatchedRows(_)
MatchedRows(data) ==
    IF data = <<>> THEN <<>>
    ELSE (IF RepIndex(Head(data).adminUsername) = 0 THEN <<>> ELSE <<Head(data)>>)
         \o MatchedRows(Tail(data))

\* C22: a usage group whose username matches no representative gives no
\* draft and does not stop the calculation: the drafts are those of the
\* same billing data without the unmatched rows, wherever the unmatched
\* group stands
C22_UnmatchedGroupIsSkipped ==
    [][(processInvoiceData /\ Len(GeneratorBillingData) > 0 /\ UnmatchedUsernames # {})
        => /\ invoiceData' = DraftsOf(GroupKeys(MatchedRows(GeneratorBillingData), {}),
                                      MatchedRows(GeneratorBillingData), selectedMonth)
           /\ \A d \in 1..Len(invoiceData') : invoiceData'[d].username \notin UnmatchedUsernames
           /\ \A i \in 1..Len(representatives) :
                 HasUsage(representatives[i].username)
                    => DraftsFor(invoiceData', representatives[i].id) # {}]_vars

\* an unmatched group first, a matched one after it, and its draft
C22_Witness ==
    /\ Len(GeneratorBillingData) >= 2
    /\ GeneratorBillingData[1].adminUsername \in UnmatchedUsernames
    /\ \E d \in 1..Len(invoiceData) :
          /\ invoiceData[d].username = GeneratorBillingData[Len(GeneratorBillingData)].adminUsername
          /\ invoiceData[d].month = selectedMonth

----------------------------------------------------------------------------
(* Claims on repeated imports (SpecFlow)                                   *)

\* the fetched billing data is the same batch of rows saved twice
SavedTwice(batch) == batch # <<>> /\ GeneratorBillingData = batch \o batch

\* C23: usage records are never deduplicated or superseded: a save adds
\* its records after those already stored, and when the same rows were
\* saved twice for a month the next calculation gives every
\* representative twice the usage and twice the totalAmount of one import
C23_ImportsAccumulate ==
    [][/\ billingData' # billingData
          => /\ Len(billingData') > Len(billingData)
             /\ SubSeq(billingData', 1, Len(billingData)) = billingData
       /\ \A batch \in FlowBatches :
             (processInvoiceData /\ SavedTwice(batch))
                => LET once == DraftsOf(GroupKeys(batch, {}), batch, selectedMonth)
                   IN /\ Len(invoiceData') = Len(once)
                      /\ \A d \in 1..Len(once) :
                            /\ invoiceData'[d].representativeId = once[d].representativeId
                            /\ invoiceData'[d].dataUsageGb = 2 * once[d].dataUsageGb
                            /\ invoiceData'[d].totalAmount
                                  = MoneyAdd(once[d].totalAmount, once[d].totalAmount)]_vars

\* the same two rows saved twice for the selected month, and the drafts of
\* the four rows
C23_Witness ==
    /\ \E batch \in FlowBatches : Len(batch) = 2 /\ billingData = batch \o batch
    /\ Len(GeneratorBillingData) = 4
    /\ Len(invoiceData) = 2
    /\ invoiceData[1].month = selectedMonth
    /\ invoiceData[2].dataUsageGb = 10000

----------------------------------------------------------------------------
(* Further claims on the import page (SpecImport)                          *)

\* C25: the invoice generator's month selector offers at least one month
\* whenever billing data exists on the server, so that from the page's
\* initial state (no month selected) a month can be selected and drafts
\* calculated
C25_MonthSelectorOffersMonths ==
    billingData # <<>> => getAvailableMonths # {}

\* the row has an identity value and a number >= 0 as its quantity
AcceptableRow(row) ==
    LET adminUsername == findFieldValue(row, IdentityFields)
        dataUsage == findFieldValue(row, UsageFields)
    IN /\ adminUsername.t = "str"
       /\ Trim(adminUsername.s) # ""
       /\ dataUsage.t = "num"
       /\ ~dataUsage.v.nan
       /\ ~NumNeg(dataUsage.v)

\* C26: every row with an identity value and a numeric quantity >= 0 is
\* accepted by processRawData; a quantity of 0 gives a record with
\* dataUsageGb = 0, not an error
C26_ZeroUsageAccepted ==
    processedData # NoData =>
        \A i \in 1..Len(file) :
            AcceptableRow(file[i])
               => /\ \A e \in 1..Len(processedData.errors) : processedData.errors[e].row # i
                  /\ \E r \in 1..Len(processedData.records) :
                        /\ processedData.records[r].rawData = file[i]
                        /\ NumZero(findFieldValue(file[i], UsageFields).v)
                              => processedData.records[r].dataUsageGb = 0

\* C27: the records a save persists carry the month shown in the month
\* input at the moment of saving, the current calendar month when the
\* input is empty
C27_SavedMonthIsShownMonth ==
    [][handleSaveBillingData
        => \A i \in (Len(billingData) + 1)..Len(billingData') :
              billingData'[i].month
                 = IF importMonth = "" THEN CurrentCalendarMonth ELSE importMonth]_vars

----------------------------------------------------------------------------
(* Claims on the invoice preview (SpecGen)                                 *)

\* C28: whenever the preview of a persisted invoice is opened, the invoice
\* number it shows (and uses for the PDF file name and the Telegram
\* message) is the number persisted for that invoice by the generator
C28_PreviewShowsPersistedNumber ==
    \A j \in 1..Len(invoices) :
        InvoicePreviewNumber(invoices[j], now) = invoices[j].invoiceNumber

----------------------------------------------------------------------------
(* Claims on the agreement of the Telegram views (SpecReps)                *)

Present(rep) == Truthy(rep.telegramId) \/ Truthy(rep.telegramUsername)

\* C30: the representatives page (filter and card), the Telegram manager
\* and the invoice preview classify a representative as reachable exactly
\* when telegramId or telegramUsername is present, and build the same link
C30_SameClassificationEverywhere ==
    \A i \in 1..Len(representatives) :
        LET rep == representatives[i]
        IN /\ matchesTelegram(rep, "has_telegram") <=> Present(rep)
           /\ matchesTelegram(rep, "no_telegram") <=> ~Present(rep)
           /\ RepCardLink(rep) # NoLink <=> Present(rep)
           /\ telegramContacts[i].hasTelegram <=> Present(rep)
           /\ RepCardLink(rep) = telegramContacts[i].telegramLink
           /\ \A j \in 1..Len(invoices) :
                 invoices[j].representativeId = rep.id
                    => /\ PreviewLink(invoices[j], rep) # NoLink <=> Present(rep)
                       /\ PreviewLink(invoices[j], rep) = telegramContacts[i].telegramLink

\* the Telegram manager alone classifies by the presence of either field
C30_ManagerByEitherField ==
    \A i \in 1..Len(representatives) :
        telegramContacts[i].hasTelegram <=> Present(representatives[i])

----------------------------------------------------------------------------
(* Claims on the accounting dashboard and the Telegram manager (SpecViews) *)

PaymentDatesOf(repId) ==
    {payments[i].paymentDate : i \in {j \in 1..Len(payments) : payments[j].representativeId = repId}}

PendingDatesOf(repId) ==
    {invoices[i].createdAt : i \in {j \in 1..Len(invoices) :
        invoices[j].representativeId = repId /\ invoices[j].status = "pending"}}

Before(a, b) == a.d < b.d \/ (a.d = b.d /\ a.ms < b.ms)

Listed(repId) ==
    \E k \in 1..Len(filteredSummaries) : filteredSummaries[k].representative.id = repId

\* C24: in a representative's summary lastPayment is the latest payment
\* date of the representative, undefined without payments; oldestUnpaid is
\* the earliest creation date of its invoices of status 'pending' only,
\* undefined without such invoices; the 'overdue' filter lists the
\* representative exactly when oldestUnpaid exists and lies more than 30
\* days before the present moment
C24_SummaryDatesAndOverdue ==
    \A i \in 1..Len(accountingSummary) :
        LET summary == accountingSummary[i]
            repId == summary.representative.id
        IN /\ IF PaymentDatesOf(repId) = {} THEN summary.lastPayment = Undefined
              ELSE /\ summary.lastPayment \in PaymentDatesOf(repId)
                   /\ \A t \in PaymentDatesOf(repId) : ~Before(summary.lastPayment, t)
           /\ IF PendingDatesOf(repId) = {} THEN summary.oldestUnpaid = Undefined
              ELSE /\ summary.oldestUnpaid \in PendingDatesOf(repId)
                   /\ \A t \in PendingDatesOf(repId) : ~Before(t, summary.oldestUnpaid)
           /\ accountingStatusFilter = "overdue"
                 => (Listed(repId)
                       <=> /\ PendingDatesOf(repId) # {}
                           /\ \E t \in PendingDatesOf(repId) :
                                 Before(t, Timestamp(Today - 30, now)))

\* the overdue filter lists one of two representatives with pending
\* invoices, the other's being younger than 30 days, and payments exist
C24_Witness ==
    /\ accountingStatusFilter = "overdue"
    /\ now > 0
    /\ Len(filteredSummaries) = 1
    /\ \E i \in 1..Len(accountingSummary) :
          /\ accountingSummary[i].oldestUnpaid # Undefined
          /\ ~Listed(accountingSummary[i].representative.id)
    /\ \E i \in 1..Len(accountingSummary) :
          /\ accountingSummary[i].lastPayment = Timestamp(Today - 3, 0)
          /\ Cardinality(PaymentDatesOf(accountingSummary[i].representative.id)) = 2

\* C29: the number of links handleSendMessages opens is the number of
\* selected contacts shown on the send button, and every opened link
\* belongs to a representative that has a channel
C29_SendsToEverySelectedContact ==
    [][(\E template \in {"invoice_notification"} : handleSendMessages(template))
        => /\ Len(openedLinks') = Cardinality(selectedContacts)
           /\ \A k \in 1..Len(openedLinks') :
                 \E i \in 1..Len(telegramContacts) :
                    /\ telegramContacts[i].representative.id = openedLinks'[k].representativeId
                    /\ telegramContacts[i].hasTelegram]_vars

\* every opened link belongs to a selected representative with a channel
C29_OpenedLinksHaveChannel ==
    \A k \in 1..Len(openedLinks) :
        \E i \in 1..Len(telegramContacts) :
           /\ telegramContacts[i].representative.id = openedLinks[k].representativeId
           /\ telegramContacts[i].hasTelegram

====
